---- MODULE Spec2Model ----
(***************************************************************************)
(* Model of main.py, the MicroPython demonstration script for the NM3      *)
(* acoustic modem.  The script is a straight line of statements executed   *)
(* by the interpreter in the module namespace:                             *)
(*                                                                         *)
(*   lines 12-29  an expression statement whose value is a string literal  *)
(*                (the text inside it, import included, is never executed) *)
(*   line 30      pico = NM3Driver()                                       *)
(*   line 31      pico.connect()                                           *)
(*   line 32      print("Ping 169", pico.ping(169))                        *)
(*   line 33      pico.send_unicast_message(169, "Test")                   *)
(*                                                                         *)
(* The driver is an external collaborator; it is modelled as a mock whose  *)
(* return values and raising call are fixed for a behaviour.  The names    *)
(* the host has put in the namespace before the script starts (MicroPython *)
(* runs boot.py and main.py in the same namespace) are an input too.       *)
(* Text is a sequence of one-character strings.                            *)
(***************************************************************************)
EXTENDS Integers, Sequences, FiniteSets

VARIABLES
    preBound,   \* names the host bound in the namespace before the script starts
    mock,       \* the driver mock: which call raises, what ping and send return
    pc,         \* line of the next statement to execute (34 = end of file)
    status,     \* "running", "done", "NameError" or "raised"
    names,      \* names bound in the module namespace
    pico,       \* the object bound to the global pico (NoInst when unbound)
    nextInst,   \* number of driver objects allocated in this process
    trace,      \* driver calls and writes to standard output of this run, in order
    runs        \* what the earlier invocations of the script did

vars == <<preBound, mock, pc, status, names, pico, nextInst, trace, runs>>

\* ---------------------------------------------------------------- bounds
MaxRuns == 2      \* invocations of the script in one behaviour
MaxPing == 12     \* largest value the mocked ping returns
MaxStatus == 1    \* largest value the mocked send_unicast_message returns

\* ---------------------------------------------------------------- values
NoInst == 0
PeerAddr == 169
Builtins == {"print"}
Ping169 == <<"P", "i", "n", "g", " ", "1", "6", "9">>
Test == <<"T", "e", "s", "t">>

PingValues == -1 .. MaxPing
SendValues == -1 .. MaxStatus
FailPoints == {"none", "NM3Driver", "connect", "ping", "send_unicast_message"}

\* ---------------------------------------------------------------- text
Digit(d) ==
    CASE d = 0 -> "0" [] d = 1 -> "1" [] d = 2 -> "2" [] d = 3 -> "3"
      [] d = 4 -> "4" [] d = 5 -> "5" [] d = 6 -> "6" [] d = 7 -> "7"
      [] d = 8 -> "8" [] d = 9 -> "9"

RECURSIVE DecStr(_)
DecStr(n) ==
    IF n < 10 THEN <<Digit(n)>> ELSE DecStr(n \div 10) \o <<Digit(n % 10)>>

\* str() of an integer
Str(n) ==
    IF n < 0 THEN <<"-">> \o DecStr(0 - n) ELSE DecStr(n)

RECURSIVE Join(_)
Join(parts) ==
    IF Len(parts) = 0 THEN <<>>
    ELSE IF Len(parts) = 1 THEN parts[1]
    ELSE parts[1] \o <<" ">> \o Join(Tail(parts))

\* what print(*parts) writes: the parts separated by a space, then a newline
PrintText(parts) ==
    Join(parts) \o <<"\n">>

\* ---------------------------------------------------------------- events
NewEv(inst, raised) ==
    [kind |-> "new", inst |-> inst, method |-> "NM3Driver", addr |-> <<>>,
     payload |-> <<>>, ret |-> <<>>, raised |-> raised, text |-> <<>>]

CallEv(inst, method, addr, payload, ret, raised) ==
    [kind |-> "call", inst |-> inst, method |-> method, addr |-> addr,
     payload |-> payload, ret |-> ret, raised |-> raised, text |-> <<>>]

PrintEv(text) ==
    [kind |-> "print", inst |-> NoInst, method |-> "print", addr |-> <<>>,
     payload |-> <<>>, ret |-> <<>>, raised |-> FALSE, text |-> text]

\* ---------------------------------------------------------------- interpreter
\* name lookup: module namespace, then builtins
Bound(n) ==
    n \in names \cup Builtins

\* a name that is not bound: NameError, uncaught, ends the run
NameErr ==
    /\ status' = "NameError"
    /\ UNCHANGED <<preBound, mock, pc, names, pico, nextInst, trace, runs>>

\* a call that raises: nothing catches it, the run ends at this statement
Raise(ev) ==
    /\ trace' = Append(trace, ev)
    /\ status' = "raised"
    /\ UNCHANGED <<preBound, mock, pc, names, pico, nextInst, runs>>

Init ==
    /\ preBound \in {{}, {"NM3Driver"}}
    /\ mock \in [failAt : FailPoints, pingRet : PingValues, sendRet : SendValues]
    /\ pc = 12
    /\ status = "running"
    /\ names = preBound
    /\ pico = NoInst
    /\ nextInst = 0
    /\ trace = <<>>
    /\ runs = <<>>

\* lines 12-29: the string literal is evaluated and dropped; nothing is bound
Line12 ==
    /\ status = "running"
    /\ pc = 12
    /\ pc' = 30
    /\ UNCHANGED <<preBound, mock, status, names, pico, nextInst, trace, runs>>

\* line 30: pico = NM3Driver()
Line30 ==
    /\ status = "running"
    /\ pc = 30
    /\ IF ~Bound("NM3Driver")
       THEN NameErr
       ELSE /\ nextInst' = nextInst + 1
            /\ IF mock.failAt = "NM3Driver"
               THEN /\ trace' = Append(trace, NewEv(nextInst + 1, TRUE))
                    /\ status' = "raised"
                    /\ UNCHANGED <<preBound, mock, pc, names, pico, runs>>
               ELSE /\ trace' = Append(trace, NewEv(nextInst + 1, FALSE))
                    /\ pico' = nextInst + 1
                    /\ names' = names \cup {"pico"}
                    /\ pc' = 31
                    /\ UNCHANGED <<preBound, mock, status, runs>>

Line31_Swallow ==
    /\ status = "running"
    /\ pc = 31
    /\ trace' = Append(trace, CallEv(pico, "connect", <<>>, <<>>, <<>>,
                                     mock.failAt = "connect"))
    /\ pc' = 32
    /\ UNCHANGED <<preBound, mock, status, names, pico, nextInst, runs>>

\* line 31: pico.connect()
Line31 ==
    /\ status = "running"
    /\ pc = 31
    /\ IF ~Bound("pico")
       THEN NameErr
       ELSE IF mock.failAt = "connect"
            THEN Raise(CallEv(pico, "connect", <<>>, <<>>, <<>>, TRUE))
            ELSE /\ trace' = Append(trace,
                        CallEv(pico, "connect", <<>>, <<>>, <<>>, FALSE))
                 /\ pc' = 32
                 /\ UNCHANGED <<preBound, mock, status, names, pico, nextInst, runs>>

Line32_Truncate ==
    /\ status = "running"
    /\ pc = 32
    /\ IF mock.failAt = "ping"
       THEN Raise(CallEv(pico, "ping", <<PeerAddr>>, <<>>, <<>>, TRUE))
       ELSE /\ trace' = trace \o
                   << CallEv(pico, "ping", <<PeerAddr>>, <<>>, <<mock.pingRet>>, FALSE),
                      PrintEv(PrintText(<<Ping169, <<Head(Str(mock.pingRet))>> >>)) >>
            /\ pc' = 33
            /\ UNCHANGED <<preBound, mock, status, names, pico, nextInst, runs>>

Line32_RunCounter ==
    /\ status = "running"
    /\ pc = 32
    /\ IF mock.failAt = "ping"
       THEN Raise(CallEv(pico, "ping", <<PeerAddr>>, <<>>, <<>>, TRUE))
       ELSE /\ trace' = trace \o
                   << CallEv(pico, "ping", <<PeerAddr>>, <<>>, <<mock.pingRet>>, FALSE),
                      PrintEv(PrintText(<<Ping169, Str(mock.pingRet + Len(runs))>>)) >>
            /\ pc' = 33
            /\ UNCHANGED <<preBound, mock, status, names, pico, nextInst, runs>>

Line32_Retry ==
    /\ status = "running"
    /\ pc = 32
    /\ IF mock.failAt = "ping"
       THEN /\ trace' = trace \o
                   << CallEv(pico, "ping", <<PeerAddr>>, <<>>, <<>>, TRUE),
                      CallEv(pico, "ping", <<PeerAddr>>, <<>>, <<>>, TRUE) >>
            /\ status' = "raised"
            /\ UNCHANGED <<preBound, mock, pc, names, pico, nextInst, runs>>
       ELSE /\ trace' = trace \o
                   << CallEv(pico, "ping", <<PeerAddr>>, <<>>, <<mock.pingRet>>, FALSE),
                      PrintEv(PrintText(<<Ping169, Str(mock.pingRet)>>)) >>
            /\ pc' = 33
            /\ UNCHANGED <<preBound, mock, status, names, pico, nextInst, runs>>

\* line 32: print("Ping 169", pico.ping(169))
\* the arguments are evaluated first, so a ping that raises prints nothing
Line32 ==
    /\ status = "running"
    /\ pc = 32
    /\ IF ~Bound("print") \/ ~Bound("pico")
       THEN NameErr
       ELSE IF mock.failAt = "ping"
            THEN Raise(CallEv(pico, "ping", <<169>>, <<>>, <<>>, TRUE))
            ELSE /\ trace' = trace \o
                        << CallEv(pico, "ping", <<169>>, <<>>, <<mock.pingRet>>, FALSE),
                           PrintEv(PrintText(<<Ping169, Str(mock.pingRet)>>)) >>
                 /\ pc' = 33
                 /\ UNCHANGED <<preBound, mock, status, names, pico, nextInst, runs>>

\* line 33 with the call made count times to addr with payload, and the
\* returned status printed when shown
SendVariant(addr, payload, count, shown) ==
    /\ status = "running"
    /\ pc = 33
    /\ IF mock.failAt = "send_unicast_message"
       THEN Raise(CallEv(pico, "send_unicast_message", <<addr>>, payload, <<>>, TRUE))
       ELSE /\ trace' = trace \o
                   [i \in 1 .. count |->
                       CallEv(pico, "send_unicast_message", <<addr>>, payload,
                              <<mock.sendRet>>, FALSE)] \o
                   (IF shown THEN <<PrintEv(PrintText(<<Str(mock.sendRet)>>))>>
                             ELSE <<>>)
            /\ pc' = 34
            /\ status' = "done"
            /\ UNCHANGED <<preBound, mock, names, pico, nextInst, runs>>

Line33_Twice == SendVariant(PeerAddr, Test, 2, FALSE)

Line33_SendDistance == SendVariant(PeerAddr, Str(mock.pingRet), 1, FALSE)

Line33_PrintOutcome == SendVariant(PeerAddr, Test, 1, TRUE)

Line33_OtherAddr == SendVariant(PeerAddr + 1, Test, 1, FALSE)

\* line 33: pico.send_unicast_message(169, "Test")
\* the returned status is dropped; this is the last statement of the file
Line33 ==
    /\ status = "running"
    /\ pc = 33
    /\ IF ~Bound("pico")
       THEN NameErr
       ELSE IF mock.failAt = "send_unicast_message"
            THEN Raise(CallEv(pico, "send_unicast_message", <<169>>, Test, <<>>, TRUE))
            ELSE /\ trace' = Append(trace,
                        CallEv(pico, "send_unicast_message", <<169>>, Test,
                               <<mock.sendRet>>, FALSE))
                 /\ pc' = 34
                 /\ status' = "done"
                 /\ UNCHANGED <<preBound, mock, names, pico, nextInst, runs>>

\* the script is invoked again, in a new process, against the same mock and
\* the same host namespace; the finished run is kept for comparison
StartRun ==
    /\ status # "running"
    /\ Len(runs) + 1 < MaxRuns
    /\ runs' = Append(runs, [trace |-> trace, status |-> status])
    /\ pc' = 12
    /\ status' = "running"
    /\ names' = preBound
    /\ pico' = NoInst
    /\ nextInst' = 0
    /\ trace' = <<>>
    /\ UNCHANGED <<preBound, mock>>

Next ==
    \/ Line12
    \/ Line30
    \/ Line31
    \/ Line32
    \/ Line33
    \/ StartRun

Spec == Init /\ [][Next]_vars

\* ---------------------------------------------------------------- observers
RECURSIVE Select(_, _)
Select(s, kinds) ==
    IF s = <<>> THEN <<>>
    ELSE IF Head(s).kind \in kinds THEN <<Head(s)>> \o Select(Tail(s), kinds)
    ELSE Select(Tail(s), kinds)

\* the driver method calls of a trace, in order
Calls(s) == Select(s, {"call"})

\* the names of the methods called, in order
Methods(s) == [i \in 1 .. Len(Calls(s)) |-> Calls(s)[i].method]

\* the writes to standard output, in order
Output(s) == [i \in 1 .. Len(Select(s, {"print"})) |-> Select(s, {"print"})[i].text]

\* the positions of a trace that hold a call of a method
CallsOf(s, m) == {i \in 1 .. Len(s) : s[i].kind = "call" /\ s[i].method = m}

TypeOK ==
    /\ pc \in {12, 30, 31, 32, 33, 34}
    /\ status \in {"running", "done", "NameError", "raised"}
    /\ names \subseteq {"NM3Driver", "pico"}
    /\ pico \in 0 .. 1
    /\ nextInst \in 0 .. 1
    /\ Len(runs) < MaxRuns

\* every invocation so far, the current one last
AllRuns == runs \o <<[trace |-> trace, status |-> status]>>

RunIds == 1 .. Len(AllRuns)

\* the distance part of the line that line 32 prints: what follows "Ping 169 "
\* up to the newline
DistanceText(line) == SubSeq(line, Len(Ping169) + 2, Len(line) - 1)

\* ---------------------------------------------------------------- C1
\* C1 as stated: a run that reaches the end of the script has called connect,
\* get_voltage, ping and send_unicast_message, once each, in that order.
C1_Original ==
    \A r \in RunIds :
        AllRuns[r].status = "done" =>
            Methods(AllRuns[r].trace) =
                <<"connect", "get_voltage", "ping", "send_unicast_message">>

\* C1 amended: a run that reaches the end of the script has called connect,
\* ping and send_unicast_message, once each, in that order, and no other
\* driver method (get_voltage is not called).
C1_Amended ==
    \A r \in RunIds :
        AllRuns[r].status = "done" =>
            Methods(AllRuns[r].trace) = <<"connect", "ping", "send_unicast_message">>

C1_Witness ==
    /\ status = "done"
    /\ Len(Calls(trace)) = 3
    /\ mock.failAt = "none"

\* ---------------------------------------------------------------- C2
\* C2: a connect call that raises is the last thing the run does: no driver
\* call follows it and the run has stopped with the error.
C2_ConnectFailureHalts ==
    \A r \in RunIds :
        \A i \in CallsOf(AllRuns[r].trace, "connect") :
            AllRuns[r].trace[i].raised =>
                /\ i = Len(AllRuns[r].trace)
                /\ AllRuns[r].status = "raised"

C2_Witness ==
    /\ status = "raised"
    /\ trace # <<>>
    /\ trace[Len(trace)].method = "connect"
    /\ trace[Len(trace)].raised

\* ---------------------------------------------------------------- C3
\* C3 as stated: the payload of every send_unicast_message call is str() of
\* the value the ping call of the same run returned.
C3_Original ==
    \A r \in RunIds :
        \A i \in CallsOf(AllRuns[r].trace, "send_unicast_message") :
            \E j \in CallsOf(AllRuns[r].trace, "ping") :
                /\ j < i
                /\ AllRuns[r].trace[j].ret # <<>>
                /\ AllRuns[r].trace[i].payload = Str(AllRuns[r].trace[j].ret[1])

\* C3 amended: the payload of every send_unicast_message call is the fixed
\* text "Test", whatever the ping call of the run returned.
C3_Amended ==
    \A r \in RunIds :
        \A i \in CallsOf(AllRuns[r].trace, "send_unicast_message") :
            AllRuns[r].trace[i].payload = <<"T", "e", "s", "t">>

C3_Witness ==
    /\ CallsOf(trace, "send_unicast_message") # {}
    /\ mock.pingRet > 9

\* ---------------------------------------------------------------- C4
\* C4: when ping returns a value, the next thing the run does is print a line
\* "Ping 169 <d>" where <d> is exactly str() of the value ping returned.
C4_PrintedDistance ==
    \A r \in RunIds :
        \A i \in CallsOf(AllRuns[r].trace, "ping") :
            ~AllRuns[r].trace[i].raised =>
                /\ i < Len(AllRuns[r].trace)
                /\ AllRuns[r].trace[i + 1].kind = "print"
                /\ LET line == AllRuns[r].trace[i + 1].text
                   IN  /\ SubSeq(line, 1, Len(Ping169) + 1) = Ping169 \o <<" ">>
                       /\ line[Len(line)] = "\n"
                       /\ DistanceText(line) = Str(AllRuns[r].trace[i].ret[1])

C4_Witness ==
    /\ mock.pingRet = -1
    /\ Output(trace) = << <<"P", "i", "n", "g", " ", "1", "6", "9", " ", "-", "1", "\n">> >>

C6_NoCatchNoRetry ==
    \A r \in RunIds :
        \A i \in 1 .. Len(AllRuns[r].trace) :
            (AllRuns[r].trace[i].kind = "call" /\ AllRuns[r].trace[i].raised) =>
                /\ i = Len(AllRuns[r].trace)
                /\ AllRuns[r].status = "raised"
                /\ Cardinality(CallsOf(AllRuns[r].trace, AllRuns[r].trace[i].method)) = 1

C6_Witness ==
    /\ status = "raised"
    /\ Len(Calls(trace)) >= 2
    /\ trace[Len(trace)].kind = "call"
    /\ trace[Len(trace)].method \in {"ping", "send_unicast_message"}
    /\ trace[Len(trace)].raised

\* ---------------------------------------------------------------- C7
\* C7 as stated: in a run in which send_unicast_message returned, the last
\* thing the run does is a print, made after the send call.
C7_Original ==
    \A r \in RunIds :
        \A i \in CallsOf(AllRuns[r].trace, "send_unicast_message") :
            (~AllRuns[r].trace[i].raised /\ AllRuns[r].status = "done") =>
                /\ i < Len(AllRuns[r].trace)
                /\ AllRuns[r].trace[Len(AllRuns[r].trace)].kind = "print"

\* C7 amended: in a run in which send_unicast_message returned, nothing is
\* printed after it: the returned status is dropped, the send call is the last
\* thing the run does, and the only output of the run is the "Ping 169 <d>"
\* line printed before the send.
C7_Amended ==
    \A r \in RunIds :
        \A i \in CallsOf(AllRuns[r].trace, "send_unicast_message") :
            ~AllRuns[r].trace[i].raised =>
                /\ i = Len(AllRuns[r].trace)
                /\ AllRuns[r].status = "done"
                /\ Len(Output(AllRuns[r].trace)) = 1
                /\ AllRuns[r].trace[i - 1].kind = "print"
                /\ SubSeq(AllRuns[r].trace[i - 1].text, 1, Len(Ping169)) = Ping169

C7_Witness ==
    /\ status = "done"
    /\ trace[Len(trace)].method = "send_unicast_message"
    /\ trace[Len(trace)].ret = <<1>>

\* ---------------------------------------------------------------- C8
\* C8: every ping and every send_unicast_message call is addressed to 169,
\* and no driver call carries any other address.
C8_FixedPeer ==
    \A r \in RunIds :
        \A i \in 1 .. Len(AllRuns[r].trace) :
            /\ AllRuns[r].trace[i].method \in {"ping", "send_unicast_message"}
                   => AllRuns[r].trace[i].addr = <<169>>
            /\ AllRuns[r].trace[i].addr \in {<<>>, <<169>>}

C8_Witness ==
    /\ CallsOf(trace, "ping") # {}
    /\ CallsOf(trace, "send_unicast_message") # {}
    /\ trace[Len(trace)].addr = <<PeerAddr>>

\* ---------------------------------------------------------------- C9
\* C9 as stated: a run that has ended constructed the driver exactly once,
\* before any method call, and made every method call on that instance.
C9_Original ==
    \A r \in RunIds :
        AllRuns[r].status # "running" =>
            /\ Len(Select(AllRuns[r].trace, {"new"})) = 1
            /\ AllRuns[r].trace[1].kind = "new"
            /\ \A i \in 2 .. Len(AllRuns[r].trace) :
                   AllRuns[r].trace[i].kind = "call" =>
                       AllRuns[r].trace[i].inst = AllRuns[r].trace[1].inst

\* ---------------------------------------------------------------- C10
\* C10 as stated: no run stops on an unbound name; once the string literal of
\* lines 12-29 has been evaluated, NM3Driver is bound, so that line 30
\* constructs the driver.
C10_Original ==
    \A r \in RunIds :
        /\ AllRuns[r].status # "NameError"
        /\ (r = Len(AllRuns) /\ pc >= 30) => Bound("NM3Driver")

====
